---- MODULE Spec2Model ----
(***************************************************************************)
(* The k-median station planner of src/main.rs: the Frontend's state, the  *)
(* controls of Frontend::update, reinitialize, simulated_annealing and     *)
(* run_k_median.                                                           *)
(*                                                                         *)
(* Numbers.  An f32 is modelled as a fixed-point number: an integer count  *)
(* of map units, or the value NaN.  Additions and subtractions are exact,  *)
(* a division and a square root round to the nearest count, and a          *)
(* comparison with NaN is false, as in IEEE arithmetic.  f32::MAX is the   *)
(* count F32_MAX, larger than every error the bounded inputs can produce.  *)
(* Indices are 1-based here and 0-based in the source.                     *)
(***************************************************************************)
EXTENDS Integers, Sequences, FiniteSets, TLC

VARIABLES markers, run_continuously, points, sets, last_error, best_so_far,
          best_so_far_points, k, anneal_step, anneal_epsilon,
          k_median_max_iter, k_median_epsilon, pc, caller, iter, phase,
          min_seen

vars == <<markers, run_continuously, points, sets, last_error, best_so_far,
          best_so_far_points, k, anneal_step, anneal_epsilon,
          k_median_max_iter, k_median_epsilon, pc, caller, iter, phase,
          min_seen>>

(* ------------------------------ bounds -------------------------------- *)

\* the loaded map holds at most MaxMarkers markers, on a grid of
\* (MaxCoord + 1) x (MaxCoord + 1) places that lie Cell map units apart
MaxMarkers == 4
MaxCoord == 2
Cell == 10000
\* the k control is dragged within 1..MaxK (1..=50 in the source)
MaxK == 2
\* the max-iterations control stands at 1 or at MaxIter (1..=100 in the
\* source)
MaxIter == 2
\* simulated_annealing on its own is called on a map of AnnealMarkers markers
AnnealMarkers == 3

(* ----------------------------- constants ------------------------------ *)

MAP_LEFT == -324600
MAP_TOP == -375000
MAP_RIGHT == 425300
MAP_BOT == 375000
\* f32::MAX: a count above every error the bounded inputs produce
F32_MAX == 1000000000
\* the one value that is no number (a count no computation produces)
NaN == -F32_MAX - 1

\* Frontend::new: anneal_step is 10000.0
DefaultAnnealStep == 10000
\* the values the "anneal epsilon" control stands at during a session: a
\* quarter of anneal_step (two passes of the search) and the upper end of
\* its range (none); SpecAnneal below covers the default 1.0
AnnealEpsilons == {DefaultAnnealStep \div 4, DefaultAnnealStep}
\* the values the "k median epsilon" control stands at: the default 10.0 and
\* the upper end of its range
KMedianEpsilons == {10, 10000}

(* ----------------------------- arithmetic ----------------------------- *)

IsNaN(a) == a = NaN

Add(a, b) == IF IsNaN(a) \/ IsNaN(b) THEN NaN ELSE a + b

Sub(a, b) == IF IsNaN(a) \/ IsNaN(b) THEN NaN ELSE a - b

\* a < b on f32: false when either side is NaN
Lt(a, b) == ~IsNaN(a) /\ ~IsNaN(b) /\ a < b

Abs(a) == IF IsNaN(a) THEN NaN ELSE IF a < 0 THEN -a ELSE a

\* a / (n as f32) for the length n of the index list a was summed over: for
\* n = 0 the sum is 0.0 and 0.0 / 0.0 is NaN
DivLen(a, n) ==
    IF IsNaN(a) \/ n = 0 THEN NaN ELSE (2 * a + n) \div (2 * n)

Magnitude(a) == IF a < 0 THEN -a ELSE a

\* the largest r with r * r <= s, by Newton's iteration from a guess r >= it
RECURSIVE FloorSqrt(_, _)
FloorSqrt(s, r) ==
    LET next == (r + s \div r) \div 2
    IN IF next >= r THEN r ELSE FloorSqrt(s, next)

\* sqrt(dx^2 + dy^2), rounded to the nearest count: Vec2::length and the
\* powi(2)/sqrt expressions
Length(dx, dy) ==
    IF IsNaN(dx) \/ IsNaN(dy) THEN NaN
    ELSE IF dx = 0 /\ dy = 0 THEN 0
    ELSE LET s == dx * dx + dy * dy
             r == FloorSqrt(s, Magnitude(dx) + Magnitude(dy))
         IN IF s - r * r > r THEN r + 1 ELSE r

pos2(x, y) == [x |-> x, y |-> y]

Finite(p) == ~IsNaN(p.x) /\ ~IsNaN(p.y)

\* distance from a center to a marker
Distance(point, marker) ==
    Length(Sub(point.x, marker.x), Sub(point.y, marker.y))

(* ------------------------------ inputs -------------------------------- *)

\* the markers main reads from ./assets/map_data.json: the first n markers of
\* a fixed map
MapData ==
    <<pos2(0, 0), pos2(0, 1), pos2(1, 1), pos2(2, 1), pos2(1, 2), pos2(2, 0)>>

Place(p) == pos2((p.x % (MaxCoord + 1)) * Cell, (p.y % (MaxCoord + 1)) * Cell)

MarkerLists ==
    {[i \in 1..n |-> Place(MapData[i])] : n \in 0..MaxMarkers}

\* gen_range(MAP_LEFT..MAP_RIGHT), gen_range(MAP_TOP..MAP_BOT): half-open
InMap(p) ==
    /\ Finite(p)
    /\ MAP_LEFT <= p.x /\ p.x < MAP_RIGHT
    /\ MAP_TOP <= p.y /\ p.y < MAP_BOT

\* the positions the random source is sampled at: a corner of the grid and
\* a place on the opposite edge
RandomPos ==
    {p \in {pos2(MaxCoord * Cell, 0),
            pos2((MaxCoord \div 2) * Cell, MaxCoord * Cell)} : InMap(p)}

(* ------------------------ simulated_annealing ------------------------- *)

\* the sum over indices of the distance from p to markers[i]
RECURSIVE SumDistance(_, _, _)
SumDistance(indices, p, i) ==
    IF i > Len(indices) THEN 0
    ELSE Add(Distance(p, markers[indices[i]]), SumDistance(indices, p, i + 1))

RECURSIVE SumCoord(_, _, _)
SumCoord(indices, axis, i) ==
    IF i > Len(indices) THEN 0
    ELSE (IF axis = "x" THEN markers[indices[i]].x ELSE markers[indices[i]].y)
         + SumCoord(indices, axis, i + 1)

\* lines 225-230: the fold from Pos2::ZERO, then the two divisions
Centroid(indices) ==
    pos2(DivLen(SumCoord(indices, "x", 1), Len(indices)),
         DivLen(SumCoord(indices, "y", 1), Len(indices)))

directions == <<pos2(1, 0), pos2(-1, 0), pos2(0, 1), pos2(0, -1)>>

RECURSIVE Pow2(_)
Pow2(h) == IF h = 0 THEN 1 ELSE 2 * Pow2(h - 1)

\* step after h halvings is anneal_step / 2^h; halving an f32 is exact
StepExceeds(h, epsilon) == anneal_step > epsilon * Pow2(h)

StepValue(h) == (2 * anneal_step + Pow2(h)) \div (2 * Pow2(h))

\* median + step * direction
TempMedian(median, h, d) ==
    pos2(Add(median.x, StepValue(h) * directions[d].x),
         Add(median.y, StepValue(h) * directions[d].y))

\* lines 244-251: the sum d of one direction of the scan, taken at median
TrialDistanceAtTemp(indices, median, temp_median) ==
    SumDistance(indices, temp_median, 1)

TrialDistance(indices, median, temp_median) ==
    SumDistance(indices, median, 1)

\* the directions of one pass whose d is below min
Improving(indices, median, min, h) ==
    {d \in 1..Len(directions) :
        Lt(TrialDistance(indices, median, TempMedian(median, h, d)), min)}

\* lines 241-263.  A pass in which no direction improves halves the step.  A
\* pass that adopts a move sets improved, which nothing clears: the step is
\* never halved again, the guard of line 241 stays true and the call does not
\* return (terminates = FALSE, median = the first adopted move).
RECURSIVE AnnealLoop(_, _, _, _)
AnnealLoop(indices, median, min, h) ==
    IF ~StepExceeds(h, anneal_epsilon)
    THEN [median |-> median, improved |-> FALSE, passes |-> h,
          terminates |-> TRUE]
    ELSE LET hits == Improving(indices, median, min, h)
         IN IF hits = {}
            THEN AnnealLoop(indices, median, min, h + 1)
            ELSE LET d == CHOOSE e \in hits : \A f \in hits : e <= f
                 IN [median |-> TempMedian(median, h, d), improved |-> TRUE,
                     passes |-> h + 1, terminates |-> FALSE]

simulated_annealing(indices) ==
    LET median == Centroid(indices)
    IN AnnealLoop(indices, median, SumDistance(indices, median, 1), 0)

(* --------------------------- run_k_median ----------------------------- *)

\* lines 271-273
ClearedKeep(s) == s

Cleared(s) == [j \in 1..Len(s) |-> <<>>]

\* line 281
CloserOrEqual(distance, closest_distance) ==
    ~IsNaN(distance) /\ ~IsNaN(closest_distance) /\ distance <= closest_distance

Closer(distance, closest_distance) == Lt(distance, closest_distance)

\* lines 277-285: the scan of the centers for one marker; closest_index
\* starts at the first center and closest_distance at f32::MAX
RECURSIVE Scan(_, _, _, _, _)
Scan(pts, marker, i, closest_distance, closest_index) ==
    IF i > Len(pts) THEN closest_index
    ELSE LET distance == Distance(pts[i], marker)
         IN IF Closer(distance, closest_distance)
            THEN Scan(pts, marker, i + 1, distance, i)
            ELSE Scan(pts, marker, i + 1, closest_distance, closest_index)

ClosestIndex(pts, marker) == Scan(pts, marker, 1, F32_MAX, 1)

\* lines 276-287: markers pushed in index order onto the set of their center
RECURSIVE Partition(_, _, _)
Partition(pts, s, markeri) ==
    IF markeri > Len(markers) THEN s
    ELSE LET c == ClosestIndex(pts, markers[markeri])
         IN Partition(pts, [s EXCEPT ![c] = Append(@, markeri)], markeri + 1)

\* lines 290-291: the calls of simulated_annealing, one per set
Medians(s) == [j \in 1..Len(s) |-> simulated_annealing(s[j])]

\* lines 296-311
RECURSIVE TotalError(_, _, _)
TotalError(pts, s, j) ==
    IF j > Len(pts) \/ j > Len(s) THEN 0
    ELSE Add(SumDistance(s[j], pts[j], 1), TotalError(pts, s, j + 1))

\* line 313
WorseThanBest(total_error, best) == Lt(best, total_error)

BetterThanBest(total_error, best) == Lt(total_error, best)

\* line 318
SignedConverged(total_error, last, epsilon) ==
    Lt(Sub(total_error, last), epsilon)

Converged(total_error, last, epsilon) ==
    Lt(Abs(Sub(total_error, last)), epsilon)

\* line 319: last_error as the break leaves it
StaleErrorAtBreak(total_error, last) == last

ErrorAtBreak(total_error, last) == total_error

(* ------------------------------- state -------------------------------- *)

\* pc: where the frame handler Frontend::update stands.  "idle" between two
\* frames, "partition"/"update" inside an iteration of run_k_median,
\* "checkbox" before the run_continuously branch of lines 152-155,
\* "panicked" after an index out of bounds, "hung" in a call of
\* simulated_annealing that does not return.
\* caller: the call of run_k_median in progress is the one of a button
\* (lines 137, 148) or the one of the checkbox branch (line 154).
\* iter: iterations of the current call executed so far.
\* phase: the driver's state, read off the code's position.
\* min_seen: the least total_error of the session (history variable).

\* Frontend::new, lines 101-117, for a loaded marker list; the controls k,
\* max iterations and the epsilons stand at any value of their ranges
Init ==
    /\ markers \in MarkerLists
    /\ anneal_step = DefaultAnnealStep
    /\ run_continuously = FALSE
    /\ points = <<>>
    /\ sets = <<>>
    /\ last_error = F32_MAX
    /\ best_so_far = F32_MAX
    /\ best_so_far_points = <<>>
    /\ k \in 1..MaxK
    /\ anneal_epsilon \in AnnealEpsilons
    /\ k_median_max_iter \in {1, MaxIter}
    /\ k_median_epsilon \in KMedianEpsilons
    /\ pc = "idle"
    /\ caller = "button"
    /\ iter = 0
    /\ phase = "Uninitialized"
    /\ min_seen = F32_MAX

\* what no control and no call changes
loaded == <<markers, anneal_step>>
params == <<anneal_epsilon, k_median_max_iter, k_median_epsilon>>
results == <<last_error, best_so_far, best_so_far_points, min_seen>>

\* lines 203-214, with the k random positions pts
reinitialize(pts) ==
    /\ points' = pts
    /\ sets' = [j \in 1..k |-> <<>>]

\* entry of run_k_median, line 269: the range 0..k_median_max_iter is not
\* empty (the control keeps k_median_max_iter >= 1)
EnterRun(who) ==
    /\ pc' = "partition"
    /\ caller' = who
    /\ iter' = 0
    /\ phase' = "Iterating"

\* the rest of the frame after the buttons: lines 151-155
ToCheckbox(on) ==
    /\ pc' = IF on THEN "checkbox" ELSE "idle"
    /\ caller' = "button"

\* line 125: the k control is dragged
ChangeK ==
    /\ pc = "idle"
    /\ \E v \in 1..MaxK : v # k /\ k' = v
    /\ ToCheckbox(run_continuously)
    /\ UNCHANGED <<loaded, run_continuously, points, sets, params, results,
                   iter, phase>>

\* line 127
ChangeMaxIter ==
    /\ pc = "idle"
    /\ \E v \in {1, MaxIter} : v # k_median_max_iter /\ k_median_max_iter' = v
    /\ ToCheckbox(run_continuously)
    /\ UNCHANGED <<loaded, run_continuously, points, sets, k, anneal_epsilon,
                   k_median_epsilon, results, iter, phase>>

\* line 129
ChangeAnnealEpsilon ==
    /\ pc = "idle"
    /\ \E v \in AnnealEpsilons : v # anneal_epsilon /\ anneal_epsilon' = v
    /\ ToCheckbox(run_continuously)
    /\ UNCHANGED <<loaded, run_continuously, points, sets, k,
                   k_median_max_iter, k_median_epsilon, results, iter, phase>>

\* line 131
ChangeKMedianEpsilon ==
    /\ pc = "idle"
    /\ \E v \in KMedianEpsilons : v # k_median_epsilon /\ k_median_epsilon' = v
    /\ ToCheckbox(run_continuously)
    /\ UNCHANGED <<loaded, run_continuously, points, sets, k,
                   k_median_max_iter, anneal_epsilon, results, iter, phase>>

\* lines 135-138: "reset and run"
ResetAndRun ==
    /\ pc = "idle"
    /\ \E pts \in [1..k -> RandomPos] : reinitialize(pts)
    /\ EnterRun("button")
    /\ UNCHANGED <<loaded, run_continuously, k, params, results>>

\* lines 140-142: "reset"
Reset ==
    /\ pc = "idle"
    /\ \E pts \in [1..k -> RandomPos] : reinitialize(pts)
    /\ phase' = "Ready"
    /\ ToCheckbox(run_continuously)
    /\ UNCHANGED <<loaded, run_continuously, k, params, results, iter>>

\* line 145
NeverReinitialize(s, kk) == FALSE

NeedsReinitialize(s, kk) == Len(s) # kk

\* lines 144-149: "step once"
StepOnce ==
    /\ pc = "idle"
    /\ IF NeedsReinitialize(sets, k)
       THEN \E pts \in [1..k -> RandomPos] : reinitialize(pts)
       ELSE UNCHANGED <<points, sets>>
    /\ EnterRun("button")
    /\ UNCHANGED <<loaded, run_continuously, k, params, results>>

\* line 151: the checkbox is clicked
ToggleRunContinuously ==
    /\ pc = "idle"
    /\ run_continuously' = ~run_continuously
    /\ ToCheckbox(~run_continuously)
    /\ UNCHANGED <<loaded, points, sets, k, params, results, iter, phase>>

\* lines 152-155: the branch of the checked box, at the end of a frame in
\* which a control was used or of a frame in which none was
ContinuousRun ==
    /\ pc = "checkbox" \/ (pc = "idle" /\ run_continuously)
    /\ \E pts \in [1..k -> RandomPos] : reinitialize(pts)
    /\ EnterRun("checkbox")
    /\ UNCHANGED <<loaded, run_continuously, k, params, results>>

\* line 286 indexes sets out of bounds
PartitionPanics ==
    \E m \in 1..Len(markers) : ClosestIndex(points, markers[m]) > Len(sets)

\* lines 270-287: the sets are cleared and the markers partitioned
PartitionStep ==
    /\ pc = "partition"
    /\ IF PartitionPanics
       THEN pc' = "panicked" /\ UNCHANGED sets
       ELSE pc' = "update" /\ sets' = Partition(points, Cleared(sets), 1)
    /\ UNCHANGED <<loaded, run_continuously, points, k, params, results,
                   caller, iter, phase>>

\* lines 289-324: the centers are moved, the error is measured, the best
\* result is kept and the loop is left or continued
UpdateStep ==
    /\ pc = "update"
    /\ LET called == Medians(sets) IN
       IF \E j \in 1..Len(sets) : ~called[j].terminates
       THEN pc' = "hung"
            /\ UNCHANGED <<points, results, caller, iter, phase>>
       ELSE IF Len(sets) > Len(points)
       THEN pc' = "panicked"
            /\ UNCHANGED <<points, results, caller, iter, phase>>
       ELSE LET medians == [j \in 1..Len(sets) |-> called[j].median]
                new_points == [j \in 1..Len(points) |->
                                 IF j <= Len(sets) THEN medians[j]
                                 ELSE points[j]]
                total_error == TotalError(new_points, sets, 1)
                stop == Converged(total_error, last_error, k_median_epsilon)
                done == stop \/ iter + 1 >= k_median_max_iter
            IN /\ points' = new_points
               /\ IF BetterThanBest(total_error, best_so_far)
                  THEN best_so_far' = total_error
                       /\ best_so_far_points' = new_points
                  ELSE UNCHANGED <<best_so_far, best_so_far_points>>
               /\ last_error' = IF stop
                                THEN ErrorAtBreak(total_error, last_error)
                                ELSE total_error
               /\ min_seen' = IF total_error < min_seen
                               THEN total_error ELSE min_seen
               /\ iter' = iter + 1
               /\ phase' = IF stop THEN "Converged"
                           ELSE IF done THEN "IterationLimitReached"
                           ELSE "Iterating"
               /\ IF ~done
                  THEN pc' = "partition" /\ UNCHANGED caller
                  ELSE ToCheckbox(caller = "button" /\ run_continuously)
    /\ UNCHANGED <<loaded, run_continuously, sets, k, params>>

Next ==
    \/ ChangeK
    \/ ChangeMaxIter
    \/ ChangeAnnealEpsilon
    \/ ChangeKMedianEpsilon
    \/ ResetAndRun
    \/ Reset
    \/ StepOnce
    \/ ToggleRunContinuously
    \/ ContinuousRun
    \/ PartitionStep
    \/ UpdateStep

Spec == Init /\ [][Next]_vars

(* ------------------- simulated_annealing on its own ------------------- *)

\* every list of AnnealMarkers markers, each at one of the first
\* MaxCoord + 1 places of the map
GridMarkerLists ==
    [1..AnnealMarkers -> {Place(MapData[i]) : i \in 1..(MaxCoord + 1)}]

\* the values anneal_step and anneal_epsilon are drawn from
AnnealSteps == {DefaultAnnealStep, DefaultAnnealStep \div 2}
AnnealEpsilonRange == {1, DefaultAnnealStep \div 4, DefaultAnnealStep}

\* the index lists a partition can hand over: increasing, without repeats
RECURSIVE Increasing(_, _)
Increasing(S, n) ==
    IF n = 0 THEN <<>>
    ELSE IF n \in S THEN Append(Increasing(S, n - 1), n)
    ELSE Increasing(S, n - 1)

IndexLists(n) == {Increasing(S, n) : S \in SUBSET (1..n) \ {{}}}

\* a Frontend with any markers, anneal_step and anneal_epsilon
InitAnneal ==
    /\ markers \in GridMarkerLists
    /\ anneal_step \in AnnealSteps
    /\ anneal_epsilon \in AnnealEpsilonRange
    /\ run_continuously = FALSE
    /\ points = <<>>
    /\ sets = <<>>
    /\ last_error = F32_MAX
    /\ best_so_far = F32_MAX
    /\ best_so_far_points = <<>>
    /\ k = 1
    /\ k_median_max_iter = 1
    /\ k_median_epsilon = 10
    /\ pc = "idle"
    /\ caller = "button"
    /\ iter = 0
    /\ phase = "Uninitialized"
    /\ min_seen = F32_MAX

\* one call simulated_annealing(indices), lines 216-266: the argument is
\* kept in sets and the value returned in points
AnnealCall ==
    /\ pc = "idle"
    /\ \E indices \in IndexLists(Len(markers)) :
           LET r == simulated_annealing(indices)
           IN /\ sets' = <<indices>>
              /\ points' = <<r.median>>
              /\ pc' = IF r.terminates THEN "returned" ELSE "hung"
    /\ UNCHANGED <<loaded, run_continuously, k, params, results, caller,
                   iter, phase>>

NextAnneal == AnnealCall

SpecAnneal == InitAnneal /\ [][NextAnneal]_vars

(* ----------------------------- properties ----------------------------- *)

Running == pc \in {"partition", "update"}

\* the places <<set, position>> at which marker index m stands in the sets
Occurrences(m) ==
    {jp \in UNION {{<<j, p>> : p \in 1..Len(sets[j])} : j \in 1..Len(sets)} :
        sets[jp[1]][jp[2]] = m}

\* C1: after the partition step of an iteration every marker index stands in
\* exactly one set, exactly once, and the sets hold nothing but marker
\* indices placed by this partition.
C1_PartitionCompleteness ==
    pc = "update" =>
        /\ \A m \in 1..Len(markers) : Cardinality(Occurrences(m)) = 1
        /\ \A j \in 1..Len(sets) : \A p \in 1..Len(sets[j]) :
               sets[j][p] \in 1..Len(markers)

\* a second iteration has partitioned several markers among two centers
C1_Witness ==
    /\ pc = "update" /\ iter >= 1
    /\ Len(markers) >= 2 /\ k >= 2
    /\ \E j \in 1..Len(sets) : sets[j] = <<>>

\* C2: after the partition step every marker stands in the set of a center
\* at a distance that is a number, no center is strictly closer to it, and no
\* center of a lower index is equally close.
C2_NearestLowestIndex ==
    pc = "update" =>
        \A j \in 1..Len(sets) : \A p \in 1..Len(sets[j]) :
            LET marker == markers[sets[j][p]]
                dj == Distance(points[j], marker)
            IN /\ ~IsNaN(dj)
               /\ \A i \in 1..Len(points) :
                      LET di == Distance(points[i], marker)
                      IN /\ ~Lt(di, dj)
                         /\ i < j => (IsNaN(di) \/ di > dj)

\* a marker equally close to two centers stands in the set of the first
C2_Witness ==
    /\ pc = "update"
    /\ \E i \in 1..Len(sets) : \E j \in 1..Len(sets) : \E p \in 1..Len(sets[i]) :
           /\ i < j
           /\ Finite(points[j])
           /\ Distance(points[i], markers[sets[i][p]])
                  = Distance(points[j], markers[sets[i][p]])

\* C3: best_so_far is the least total_error of the session; an iteration
\* overwrites it, together with best_so_far_points, exactly when its
\* total_error (the value it leaves in last_error) is strictly smaller, and
\* then best_so_far_points is that iteration's center list; every other
\* step, reinitialize included, leaves both unchanged.
C3_BestSoFar ==
    /\ [](best_so_far = min_seen)
    /\ [][/\ best_so_far' <= best_so_far
          /\ IF iter' = iter + 1 /\ last_error' < best_so_far
             THEN best_so_far' = last_error' /\ best_so_far_points' = points'
             ELSE UNCHANGED <<best_so_far, best_so_far_points>>]_vars

\* a run with another k has ended above the best error of an earlier run
C3_Witness ==
    /\ pc = "idle"
    /\ best_so_far < last_error /\ last_error < F32_MAX
    /\ Len(best_so_far_points) # Len(points)

\* C4: every stored center has two coordinates that are numbers.
C4_CentersFinite == \A i \in 1..Len(points) : Finite(points[i])

\* C5: a step of the "reset" button (reinitialize alone) leaves k centers
\* inside the map rectangle, k empty sets and last_error at f32::MAX.
C5_ReinitializeResets ==
    [][(pc = "idle" /\ phase' = "Ready"
            /\ UNCHANGED <<k, params, run_continuously>>)
        => /\ Len(points') = k /\ Len(sets') = k
           /\ \A i \in 1..k : InMap(points'[i]) /\ sets'[i] = <<>>
           /\ last_error' = F32_MAX]_vars

\* C6: a call executes at most k_median_max_iter iterations.  Every
\* iteration leaves its total_error in last_error; it ends the call as
\* Converged when that error is within k_median_epsilon of the former
\* last_error, as IterationLimitReached when it was the last one allowed,
\* and is followed by another iteration otherwise.
C6_RunTerminates ==
    /\ [](Running => iter < k_median_max_iter)
    /\ [][iter' = iter + 1 =>
            LET total_error == TotalError(points', sets, 1)
                delta == Abs(total_error - last_error)
            IN /\ last_error' = total_error
               /\ iter' <= k_median_max_iter
               /\ IF delta < k_median_epsilon
                  THEN phase' = "Converged" /\ ~Running'
                  ELSE IF iter' = k_median_max_iter
                  THEN phase' = "IterationLimitReached" /\ ~Running'
                  ELSE phase' = "Iterating" /\ pc' = "partition"]_vars

\* a call has used up its iterations, more than one, without converging
C6_Witness ==
    /\ phase = "IterationLimitReached"
    /\ iter = k_median_max_iter /\ iter >= 2
    /\ ~Running

\* the partition of the markers among the stored centers
Repartition == Partition(points, Cleared(sets), 1)

\* C7 as stated: once Converged, partition and error computation with the
\* unchanged centers yield the error the run ended with.
C7_IdempotentConvergence ==
    phase = "Converged" => TotalError(points, Repartition, 1) = last_error

\* C7 as amended: once Converged, if the partition with the unchanged
\* centers reproduces the sets the run ended with, the error computation
\* yields the error the run ended with.
C7_StableConvergence ==
    (phase = "Converged" /\ Repartition = sets)
        => TotalError(points, Repartition, 1) = last_error

\* a run over several markers has converged on sets the partition reproduces
C7_Witness ==
    /\ phase = "Converged"
    /\ Repartition = sets
    /\ Len(markers) >= 2
    /\ last_error > 0

\* C8: the clustering loop is not executed with more centers than markers.
C8_InvalidConfigurationRejected == Running => k <= Len(markers)

\* C9: every call of simulated_annealing on a nonempty index list returns,
\* adopts no move, halves the step on every pass until it no longer exceeds
\* anneal_epsilon, and returns the arithmetic mean of the listed markers (of
\* a single marker: its position).
C9_AnnealingReturnsCentroid ==
    pc \in {"returned", "hung"} =>
        LET indices == sets[1]
            n == Len(indices)
            median == points[1]
            r == simulated_annealing(indices)
        IN /\ pc = "returned"
           /\ ~r.improved
           /\ median = Centroid(indices)
           /\ 2 * Magnitude(n * median.x - SumCoord(indices, "x", 1)) <= n
           /\ 2 * Magnitude(n * median.y - SumCoord(indices, "y", 1)) <= n
           /\ ~StepExceeds(r.passes, anneal_epsilon)
           /\ r.passes > 0 => StepExceeds(r.passes - 1, anneal_epsilon)
           /\ n = 1 => median = markers[indices[1]]

\* a call on several markers at different places has made several passes
C9_Witness ==
    /\ pc = "returned"
    /\ Len(sets[1]) >= 2
    /\ \E i \in 1..Len(sets[1]) : markers[sets[1][i]] # markers[sets[1][1]]
    /\ simulated_annealing(sets[1]).passes >= 2

\* C10: whenever run_k_median executes, points and sets both hold k >= 1
\* entries, and no index is out of bounds.
C10_SizesMatchK ==
    /\ Running => (Len(points) = k /\ Len(sets) = k /\ k >= 1)
    /\ pc # "panicked"

\* a call starts after a call with another k has left a best result
C10_Witness ==
    /\ pc = "partition" /\ iter = 0
    /\ best_so_far < F32_MAX
    /\ Len(best_so_far_points) # k

====
